---- MODULE Spec2Model ----
(***************************************************************************)
(* Model of oedatamodel_api/transform.py: the transformation of a raw      *)
(* oedatamodel response (column descriptions plus a row matrix) into the   *)
(* normalized and concrete json forms and their zipped csv renderings.     *)
(*                                                                         *)
(* Python values are modelled as tagged records, Python dicts as sequences *)
(* of <<key, value>> pairs with pairwise distinct keys in insertion order, *)
(* Python lists as sequences.  Positions are 0-based as in the source;     *)
(* At and Slice translate them to TLA+ sequences.  A call's outcome is a   *)
(* record [raised, value]: the exception that left the call ("none" when   *)
(* it returned) and the value it returned.                                 *)
(*                                                                         *)
(* The state is one call: its arguments raw_json, data_format, start and   *)
(* end, whether it has been made (pc), and its outcome (result).           *)
(***************************************************************************)
EXTENDS Integers, Sequences, FiniteSets, TLC

VARIABLES raw_json, data_format, start, end, pc, result

vars == <<raw_json, data_format, start, end, pc, result>>

-----------------------------------------------------------------------------
(* Texts.  A text is what str(), an f-string or a csv cell holds.  Only    *)
(* what the program can tell apart is kept: whether the text is a decimal  *)
(* numeral ("1"), a numeral with a fraction ("1.0") or any other word.     *)

Dec(n) == [form |-> "dec", n |-> n, w |-> ""]
DecPoint(n) == [form |-> "decpoint", n |-> n, w |-> ""]
Word(w) == [form |-> "word", n |-> 0, w |-> w]

(* Python values: None, int n, float n.0 and str holding a text.           *)
PyNone == [t |-> "NoneType", n |-> 0, x |-> Word("")]
PyInt(n) == [t |-> "int", n |-> n, x |-> Word("")]
PyFloat(n) == [t |-> "float", n |-> n, x |-> Word("")]
PyStr(x) == [t |-> "str", n |-> 0, x |-> x]

IsNumber(v) == v.t \in {"int", "float"}

(* Python's ==: an int equals the float of the same number.                *)
PyEq(a, b) == IF IsNumber(a) /\ IsNumber(b) THEN a.n = b.n ELSE a = b

(* str(v), which is also what f'{v}' interpolates.                         *)
py_str(v) ==
    CASE v.t = "NoneType" -> Word("None")
      [] v.t = "int" -> Dec(v.n)
      [] v.t = "float" -> DecPoint(v.n)
      [] OTHER -> v.x

(* Optional[int]: None or an int.                                          *)
NoneInt == [is_none |-> TRUE, v |-> 0]
SomeInt(k) == [is_none |-> FALSE, v |-> k]

-----------------------------------------------------------------------------
(* Sequences with 0-based positions.                                       *)

Min(a, b) == IF a < b THEN a ELSE b

At(seq, i) == seq[i + 1]

InRange(seq, i) == i >= 0 /\ i < Len(seq)

(* seq[lo:hi] for 0 <= lo, with hi None or >= 0.                           *)
Slice(seq, lo, hi) ==
    LET top == IF hi.is_none THEN Len(seq) ELSE Min(hi.v, Len(seq))
        bot == Min(lo, Len(seq))
    IN  IF top <= bot THEN <<>> ELSE SubSeq(seq, bot + 1, top)

(* Dicts: sequences of <<key, value>> with distinct keys.                  *)
DictKeys(d) == [i \in 1..Len(d) |-> d[i][1]]
DictValues(d) == [i \in 1..Len(d) |-> d[i][2]]
HasKey(d, k) == \E i \in 1..Len(d) : d[i][1] = k
DictGet(d, k) == d[CHOOSE i \in 1..Len(d) : d[i][1] = k][2]

(* d[k] = v: an existing key keeps its place and takes the new value.      *)
DictSet(d, k, v) ==
    IF HasKey(d, k)
    THEN [i \in 1..Len(d) |-> IF d[i][1] = k THEN <<k, v>> ELSE d[i]]
    ELSE Append(d, <<k, v>>)

(* {**a, **b}                                                              *)
RECURSIVE DictMerge(_, _)
DictMerge(a, b) ==
    IF b = <<>> THEN a
    ELSE DictMerge(DictSet(a, Head(b)[1], Head(b)[2]), Tail(b))

(* dict(zip(keys, values)): zip stops at the shorter of the two.           *)
RECURSIVE DictZipFrom(_, _, _, _)
DictZipFrom(d, keys, values, i) ==
    IF i > Min(Len(keys), Len(values)) THEN d
    ELSE DictZipFrom(DictSet(d, keys[i], values[i]), keys, values, i + 1)

DictZip(keys, values) == DictZipFrom(<<>>, keys, values, 1)

-----------------------------------------------------------------------------
(* Outcomes of calls.                                                      *)

Returns(v) == [raised |-> "none", value |-> v]
Raises(e) == [raised |-> e, value |-> <<>>]

-----------------------------------------------------------------------------
(* get_data_indexes: the positions of the columns whose column[0], the     *)
(* column's name, is 'id'.                                                 *)

ColumnName(column) == column[1]
ColumnKind(column) == column[2]

(* An indexer that reads the column's kind instead of its name.            *)
IsIdColumnByKind(column) == ColumnKind(column) = "id"

IsIdColumn(column) == ColumnName(column) = "id"

RECURSIVE IndexesFrom(_, _)
IndexesFrom(description, i) ==
    IF i >= Len(description) THEN <<>>
    ELSE IF IsIdColumn(At(description, i))
         THEN <<i>> \o IndexesFrom(description, i + 1)
         ELSE IndexesFrom(description, i + 1)

get_data_indexes(raw) == IndexesFrom(raw.description, 0)

-----------------------------------------------------------------------------
(* get_scenario_data: the first scenario_columns column names mapped to    *)
(* the values of the first row.  The loop of lines 81-84, from position i  *)
(* with the dict built so far; an index outside the description, the row   *)
(* list or the row raises IndexError.                                      *)

RECURSIVE ScenarioLoop(_, _, _, _)
ScenarioLoop(raw, columns, i, scenario_data) ==
    IF i >= columns THEN Returns(scenario_data)
    ELSE IF ~InRange(raw.description, i) THEN Raises("IndexError")
    ELSE IF ~InRange(raw.data, 0) THEN Raises("IndexError")
    ELSE IF ~InRange(At(raw.data, 0), i) THEN Raises("IndexError")
    ELSE ScenarioLoop(raw, columns, i + 1,
                      DictSet(scenario_data,
                              ColumnName(At(raw.description, i)),
                              At(At(raw.data, 0), i)))

(* An extractor that stops one column early.                               *)
get_scenario_data_short(raw, columns) == ScenarioLoop(raw, columns - 1, 0, <<>>)

get_scenario_data(raw, columns) == ScenarioLoop(raw, columns, 0, <<>>)

-----------------------------------------------------------------------------
(* get_multiple_rows_from_data: one dict per row for the columns           *)
(* first:last, leaving out the rows whose value at first is None.          *)

ColumnNames(raw, first, last) ==
    LET cols == Slice(raw.description, first, last)
    IN  [i \in 1..Len(cols) |-> ColumnName(cols[i])]

(* A partitioner that skips every falsy start value: `if not row[start]`.  *)
RowIsSkippedIfFalsy(row, first) ==
    At(row, first) \in {PyNone, PyStr(Word("")), PyInt(0), PyFloat(0)}

(* A partitioner that keeps every row.                                     *)
RowIsNeverSkipped(row, first) == FALSE

(* The test of line 110.                                                   *)
RowIsSkipped(row, first) == At(row, first) = PyNone

RECURSIVE RowsLoop(_, _, _, _, _)
RowsLoop(raw, first, last, r, table_data) ==
    IF r > Len(raw.data) THEN Returns(table_data)
    ELSE LET row == raw.data[r] IN
         IF ~InRange(row, first) THEN Raises("IndexError")
         ELSE IF RowIsSkipped(row, first)
              THEN RowsLoop(raw, first, last, r + 1, table_data)
              ELSE RowsLoop(raw, first, last, r + 1,
                            Append(table_data,
                                   DictZip(ColumnNames(raw, first, last),
                                           Slice(row, first, last))))

get_multiple_rows_from_data(raw, first, last) ==
    RowsLoop(raw, first, last, 1, <<>>)

-----------------------------------------------------------------------------
(* get_normalized_json.  A json object is a dict from section name to a    *)
(* tagged value: a dict (the scenario) or a list of dicts.                 *)

AsDict(d) == [type |-> "dict", v |-> d]
AsList(l) == [type |-> "list", v |-> l]

Section(json, name) == DictGet(json, name).v

get_normalized_json(raw) ==
    LET table_indexes == get_data_indexes(raw) IN
    IF ~InRange(table_indexes, 1) THEN Raises("IndexError") ELSE
    LET scenario == get_scenario_data(raw, At(table_indexes, 1)) IN
    IF scenario.raised # "none" THEN Raises(scenario.raised) ELSE
    IF ~InRange(table_indexes, 2) THEN Raises("IndexError") ELSE
    LET data == get_multiple_rows_from_data(
                    raw, At(table_indexes, 1), SomeInt(At(table_indexes, 2))) IN
    IF data.raised # "none" THEN Raises(data.raised) ELSE
    IF ~InRange(table_indexes, 3) THEN Raises("IndexError") ELSE
    LET timeseries == get_multiple_rows_from_data(
                    raw, At(table_indexes, 2), SomeInt(At(table_indexes, 3))) IN
    IF timeseries.raised # "none" THEN Raises(timeseries.raised) ELSE
    LET scalars == get_multiple_rows_from_data(
                    raw, At(table_indexes, 3), NoneInt) IN
    IF scalars.raised # "none" THEN Raises(scalars.raised) ELSE
    Returns(<< <<"oed_scenario", AsDict(scenario.value)>>,
               <<"oed_data", AsList(data.value)>>,
               <<"oed_scalars", AsList(scalars.value)>>,
               <<"oed_timeseries", AsList(timeseries.value)>> >>)

-----------------------------------------------------------------------------
(* get_concrete_json.  The lookups of lines 168 and 171 interpolate the    *)
(* data id into a JMESPath literal `...` and search the list for the first *)
(* entry whose id equals the parsed literal.                               *)

(* json.loads of a text: a numeral is a number, "null" is None, any other  *)
(* word of the model is not JSON.                                          *)
json_loads(text) ==
    CASE text.form = "dec" -> Returns(PyInt(text.n))
      [] text.form = "decpoint" -> Returns(PyFloat(text.n))
      [] text.form = "word" /\ text.w = "null" -> Returns(PyNone)
      [] OTHER -> Raises("ValueError")

(* The value of the literal `text`: the JSON value the text parses to, or, *)
(* when it is not JSON, the text as a string.                              *)
JmesLiteral(text) ==
    LET parsed == json_loads(text)
    IN  IF parsed.raised = "none" THEN parsed.value ELSE PyStr(text)

(* JMESPath's ==, on the values of the model.                              *)
JmesEq(a, b) == PyEq(a, b)

(* The field id of an entry, null when the entry has none.                 *)
JmesField(entry, key) == IF HasKey(entry, key) THEN DictGet(entry, key) ELSE PyNone

(* jmespath.search(f'[?id==`{data_id}`] | [0]', entries): the outcome is   *)
(* [found, entry]; found is FALSE when search returns None.                *)
NotFound == [found |-> FALSE, entry |-> <<>>]

IdQuery(data_id) == JmesLiteral(py_str(data_id))

JmesSearch(data_id, entries) ==
    LET hits == {i \in 1..Len(entries) :
                    JmesEq(JmesField(entries[i], "id"), IdQuery(data_id))}
    IN  IF hits = {} THEN NotFound
        ELSE [found |-> TRUE,
              entry |-> entries[CHOOSE i \in hits : \A j \in hits : i <= j]]

(* {k: v for k, v in entry.items() if k != 'id'}                           *)
WithoutId(entry) == SelectSeq(entry, LAMBDA kv : kv[1] # "id")

(* A merge in which the data entry's values win: {**entry, **data}.        *)
ConcreteEntryDataWins(data, entry) ==
    DictMerge(data, SelectSeq(entry, LAMBDA kv : ~HasKey(data, kv[1])))

(* Line 172.                                                               *)
ConcreteEntry(data, entry) == DictMerge(data, WithoutId(entry))

(* The loop of lines 165-173 from data entry d on, with the two output     *)
(* lists built so far.  entry.items() on None raises AttributeError.       *)
RECURSIVE ConcreteLoop(_, _, _, _)
ConcreteLoop(normalized_json, d, oed_scalars, oed_timeseries) ==
    LET oed_data == Section(normalized_json, "oed_data") IN
    IF d > Len(oed_data)
    THEN Returns(<< <<"oed_scenario", DictGet(normalized_json, "oed_scenario")>>,
                    <<"oed_scalars", AsList(oed_scalars)>>,
                    <<"oed_timeseries", AsList(oed_timeseries)>> >>)
    ELSE IF ~HasKey(oed_data[d], "id") THEN Raises("KeyError")
    ELSE LET data == oed_data[d]
             data_id == DictGet(data, "id")
             in_scalars == JmesSearch(data_id, Section(normalized_json, "oed_scalars"))
             in_timeseries == JmesSearch(data_id, Section(normalized_json, "oed_timeseries"))
         IN  IF in_scalars.found
             THEN ConcreteLoop(normalized_json, d + 1,
                               Append(oed_scalars, ConcreteEntry(data, in_scalars.entry)),
                               oed_timeseries)
             ELSE IF in_timeseries.found
             THEN ConcreteLoop(normalized_json, d + 1, oed_scalars,
                               Append(oed_timeseries,
                                      ConcreteEntry(data, in_timeseries.entry)))
             ELSE Raises("AttributeError")

get_concrete_json(raw) ==
    LET normalized_json == get_normalized_json(raw) IN
    IF normalized_json.raised # "none" THEN Raises(normalized_json.raised)
    ELSE ConcreteLoop(normalized_json.value, 1, <<>>, <<>>)

-----------------------------------------------------------------------------
(* create_zip_csv: one member <name>.csv per section.  A csv text is kept  *)
(* as its rows of cells; csv.writer writes None as the empty cell and any  *)
(* other value as its str().                                               *)

CsvCell(v) == IF v = PyNone THEN Word("") ELSE py_str(v)

CsvRow(values) == [i \in 1..Len(values) |-> CsvCell(values[i])]

(* The header cells are the keys, which are strings already.               *)
CsvHeader(keys) == [i \in 1..Len(keys) |-> Word(keys[i])]

(* Lines 193-201 for one section.                                          *)
CsvOf(data) ==
    CASE data.type = "dict" ->
            Returns(<<CsvHeader(DictKeys(data.v)), CsvRow(DictValues(data.v))>>)
      [] data.type = "list" ->
            IF ~InRange(data.v, 0) THEN Raises("IndexError")
            ELSE Returns(<<CsvHeader(DictKeys(At(data.v, 0)))>>
                         \o [i \in 1..Len(data.v) |-> CsvRow(DictValues(data.v[i]))])
      [] OTHER -> Raises("TypeError")

RECURSIVE ZipLoop(_, _, _)
ZipLoop(json, k, zipped) ==
    IF k > Len(json) THEN Returns(zipped)
    ELSE LET csv_buffer == CsvOf(json[k][2]) IN
         IF csv_buffer.raised # "none" THEN Raises(csv_buffer.raised)
         ELSE ZipLoop(json, k + 1,
                      Append(zipped, [name |-> json[k][1], suffix |-> ".csv",
                                      content |-> csv_buffer.value]))

create_zip_csv(json) == ZipLoop(json, 1, <<>>)

get_normalized_csv(raw) ==
    LET normalized_json == get_normalized_json(raw) IN
    IF normalized_json.raised # "none" THEN Raises(normalized_json.raised)
    ELSE create_zip_csv(normalized_json.value)

get_concrete_csv(raw) ==
    LET concrete_json == get_concrete_json(raw) IN
    IF concrete_json.raised # "none" THEN Raises(concrete_json.raised)
    ELSE create_zip_csv(concrete_json.value)

-----------------------------------------------------------------------------
(* format_data: the five branches of lines 36-45 and the fall-through of   *)
(* line 46, which returns None.                                            *)

OedataFormat == {"raw", "json_normalized", "json_concrete",
                 "csv_normalized", "csv_concrete"}

format_data(raw, format) ==
    CASE format = "raw" -> Returns(raw)
      [] format = "json_normalized" -> get_normalized_json(raw)
      [] format = "json_concrete" -> get_concrete_json(raw)
      [] format = "csv_normalized" -> get_normalized_csv(raw)
      [] format = "csv_concrete" -> get_concrete_csv(raw)
      [] OTHER -> Returns(PyNone)

-----------------------------------------------------------------------------
(* Inputs.                                                                 *)

MaxDescLen == 4
MaxPartCols == 3
MaxPartRows == 2
MaxCols == 6
MaxRows == 2
MaxConcreteRows == 2

SeqsUpTo(S, n) == UNION {[1..k -> S] : k \in 0..n}

(* A column of the model carries the kind its name suggests, unless the    *)
(* input names the kind itself.                                            *)
KindOf(name) == IF name = "id" THEN "id" ELSE "text"
Described(names) == [i \in 1..Len(names) |-> <<names[i], KindOf(names[i])>>]

(* Descriptions in which name and kind vary independently.                 *)
IndexerColumns == {"id", "a"} \X {"id", "text"}
IndexerDescriptions(n) == SeqsUpTo(IndexerColumns, n)

(* The example response of the documentation of the format, and the same   *)
(* response with every boundary column named id and the scalar row         *)
(* carrying the id of its data row.                                        *)
ExampleRow ==
    <<PyStr(Word("S1")), PyStr(Word("run-a")), PyStr(Word("D1")), PyInt(10),
      PyNone, PyNone, PyStr(Word("SC1")), PyStr(Word("east"))>>

ExampleRaw ==
    [description |-> << <<"scenario_id", "id">>, <<"name", "text">>,
                        <<"id", "id">>, <<"value", "num">>,
                        <<"id", "id">>, <<"ts", "json">>,
                        <<"id", "id">>, <<"region", "text">> >>,
     data |-> <<ExampleRow>>]

ExampleRawById ==
    [description |-> [ExampleRaw.description EXCEPT ![1] = <<"id", "id">>],
     data |-> <<[ExampleRow EXCEPT ![7] = PyStr(Word("D1"))]>>]

(* Generated responses: every description over the names id and a up to    *)
(* MaxCols columns, with up to MaxRows rows.  Row r carries its number as  *)
(* the value of its id columns and a value of its own in every other       *)
(* column; a row may lack its timeseries part (the cells from the third    *)
(* id column up to the fourth are None) or its scalar part (the cells from *)
(* the fourth id column on are None).                                      *)
RowKinds == {"full", "no_timeseries", "no_scalars"}

IdsUpTo(names, c) == Cardinality({i \in 1..c : names[i] = "id"})

GeneratedCell(names, kind, r, c) ==
    IF \/ kind = "no_timeseries" /\ IdsUpTo(names, c) = 3
       \/ kind = "no_scalars" /\ IdsUpTo(names, c) >= 4
    THEN PyNone
    ELSE IF names[c] = "id" THEN PyInt(r) ELSE PyInt(10 * r + c)

GeneratedRaw(names, kinds) ==
    [description |-> Described(names),
     data |-> [r \in 1..Len(kinds) |->
                  [c \in 1..Len(names) |-> GeneratedCell(names, kinds[r], r, c)]]]

GeneratedResponses(cols, rows) ==
    {GeneratedRaw(names, kinds) :
        names \in SeqsUpTo({"id", "a"}, cols), kinds \in SeqsUpTo(RowKinds, rows)}

RawResponses(cols, rows) ==
    {ExampleRaw, ExampleRawById} \cup GeneratedResponses(cols, rows)

(* Format tokens a caller may pass: the five of OedataFormat and others.   *)
OtherTokens == {"xml"}

(* Responses for the partitioner: the cell at the start column is None, an *)
(* empty string, zero or a word; every other cell has a value of its own.  *)
StartCells == {PyNone, PyStr(Word("")), PyInt(0), PyStr(Word("D1"))}

PartitionRaw(names, first, cells) ==
    [description |-> Described(names),
     data |-> [r \in 1..Len(cells) |->
                  [c \in 1..Len(names) |->
                      IF c = first + 1 THEN cells[r] ELSE PyInt(10 * r + c)]]]

(* Responses for the join: a scenario section (id), a data section         *)
(* (id, a, c), a timeseries section (id, a) and a scalar section           *)
(* (id, a, b); each row chooses the ids of its three parts.                *)
ConcreteLayout == <<"id", "id", "a", "c", "id", "a", "id", "a", "b">>

DataIds == {PyInt(1), PyFloat(1), PyStr(Dec(1)), PyStr(Word("D1"))}
TimeseriesIds == {PyNone, PyStr(Word("D1"))}
ScalarIds == {PyNone, PyInt(1), PyStr(Dec(1)), PyStr(Word("D1"))}

ConcreteRaw(names, ids) ==
    [description |-> Described(names),
     data |-> [r \in 1..Len(ids) |->
                  [c \in 1..Len(names) |->
                      IF names[c] # "id" THEN PyInt(10 * r + c)
                      ELSE IF IdsUpTo(names, c) = 1 THEN PyStr(Word("S1"))
                      ELSE ids[r][IdsUpTo(names, c) - 1]]]]

ConcreteResponses(rows) ==
    {ConcreteRaw(ConcreteLayout, ids) :
        ids \in SeqsUpTo(DataIds \X TimeseriesIds \X ScalarIds, rows)}

-----------------------------------------------------------------------------
(* The calls.                                                              *)

NoResult == [raised |-> "none", value |-> <<>>]

Idle == /\ data_format = "raw"
        /\ start = 0
        /\ end = NoneInt

(* format_data(raw_json, data_format)                                      *)
Init ==
    /\ raw_json \in RawResponses(MaxCols, MaxRows)
    /\ data_format \in OedataFormat \cup OtherTokens
    /\ start = 0
    /\ end = NoneInt
    /\ pc = "ready"
    /\ result = NoResult

Return(outcome) ==
    /\ pc = "ready"
    /\ pc' = "done"
    /\ result' = outcome
    /\ UNCHANGED <<raw_json, data_format, start, end>>

FormatRaw ==
    /\ data_format = "raw"
    /\ Return(format_data(raw_json, data_format))

FormatJsonNormalized ==
    /\ data_format = "json_normalized"
    /\ Return(format_data(raw_json, data_format))

FormatJsonConcrete ==
    /\ data_format = "json_concrete"
    /\ Return(format_data(raw_json, data_format))

FormatCsvNormalized ==
    /\ data_format = "csv_normalized"
    /\ Return(format_data(raw_json, data_format))

FormatCsvConcrete ==
    /\ data_format = "csv_concrete"
    /\ Return(format_data(raw_json, data_format))

FormatOther ==
    /\ data_format \notin OedataFormat
    /\ Return(format_data(raw_json, data_format))

Next ==
    \/ FormatRaw
    \/ FormatJsonNormalized
    \/ FormatJsonConcrete
    \/ FormatCsvNormalized
    \/ FormatCsvConcrete
    \/ FormatOther

Spec == Init /\ [][Next]_vars

(* get_data_indexes(raw_json)                                              *)
InitIndexer ==
    /\ raw_json \in {[description |-> d, data |-> <<>>] : d \in IndexerDescriptions(MaxDescLen)}
    /\ Idle
    /\ pc = "ready"
    /\ result = NoResult

CallGetDataIndexes == Return(Returns(get_data_indexes(raw_json)))

NextIndexer == CallGetDataIndexes

SpecIndexer == InitIndexer /\ [][NextIndexer]_vars

(* get_multiple_rows_from_data(raw_json, start, end)                       *)
InitPartition ==
    /\ \E names \in SeqsUpTo({"id", "a"}, MaxPartCols) :
         /\ names # <<>>
         /\ start \in 0..(Len(names) - 1)
         /\ end \in {NoneInt} \cup {SomeInt(e) : e \in (start + 1)..Len(names)}
         /\ \E cells \in SeqsUpTo(StartCells, MaxPartRows) :
              raw_json = PartitionRaw(names, start, cells)
    /\ data_format = "raw"
    /\ pc = "ready"
    /\ result = NoResult

CallGetMultipleRows == Return(get_multiple_rows_from_data(raw_json, start, end))

NextPartition == CallGetMultipleRows

SpecPartition == InitPartition /\ [][NextPartition]_vars

(* get_concrete_json(raw_json)                                             *)
InitConcrete ==
    /\ raw_json \in ConcreteResponses(MaxConcreteRows)
    /\ Idle
    /\ pc = "ready"
    /\ result = NoResult

CallGetConcreteJson == Return(get_concrete_json(raw_json))

NextConcrete == CallGetConcreteJson

SpecConcrete == InitConcrete /\ [][NextConcrete]_vars

-----------------------------------------------------------------------------
(* Properties.                                                             *)

Done == pc = "done"
Returned == Done /\ result.raised = "none"

StrictlyAscending(seq) == \A i, j \in 1..Len(seq) : i < j => seq[i] < seq[j]
Elements(seq) == {seq[i] : i \in 1..Len(seq)}

PositionsWhere(description, Test(_)) ==
    {i \in 0..(Len(description) - 1) : Test(At(description, i))}

NamedId(column) == ColumnName(column) = "id"
OfKindId(column) == ColumnKind(column) = "id"

(* C3 as stated: the Column Indexer returns, in ascending order, the       *)
(* 0-based position of every column descriptor whose kind equals "id",     *)
(* and of no other descriptor.                                             *)
C3_IndexesOfKindId ==
    Done => /\ StrictlyAscending(result.value)
            /\ Elements(result.value) = PositionsWhere(raw_json.description, OfKindId)

(* C3 amended: the Column Indexer returns, in ascending order, the 0-based *)
(* position of every column descriptor whose name (its first component)    *)
(* equals "id", and of no other descriptor, whatever the kinds are.        *)
C3_IndexesOfNameId ==
    Done => /\ StrictlyAscending(result.value)
            /\ Elements(result.value) = PositionsWhere(raw_json.description, NamedId)

C3_Witness ==
    /\ Done
    /\ Len(result.value) >= 2
    /\ \E i \in 1..Len(raw_json.description) :
         NamedId(raw_json.description[i]) /\ ~OfKindId(raw_json.description[i])
    /\ \E i \in 1..Len(raw_json.description) :
         OfKindId(raw_json.description[i]) /\ ~NamedId(raw_json.description[i])

(* The rows of the response that pass Keep at the start column, each as    *)
(* the mapping of the section's column names to its values, in the order   *)
(* of the response.                                                        *)
KeptRows(Keep(_)) ==
    LET kept == SelectSeq(raw_json.data, LAMBDA row : Keep(At(row, start)))
    IN  [k \in 1..Len(kept) |->
            DictZip(ColumnNames(raw_json, start, end), Slice(kept[k], start, end))]

IsNull(v) == v = PyNone
IsNullOrEmpty(v) == v = PyNone \/ v = PyStr(Word(""))
NotNull(v) == ~IsNull(v)
NotNullOrEmpty(v) == ~IsNullOrEmpty(v)

(* C2 as stated: a row whose value at the section's start column is null   *)
(* or empty is absent from the output, every other row is present, and the *)
(* retained rows keep their relative order.                                *)
C2_SkipsNullOrEmpty == Done => Returned /\ result.value = KeptRows(NotNullOrEmpty)

(* C2 amended: a row is absent from the output exactly when its value at   *)
(* the start column is null (None); every other row, also one whose start  *)
(* value is an empty string or zero, is present, in the original order.    *)
C2_SkipsNull == Done => Returned /\ result.value = KeptRows(NotNull)

C2_Witness ==
    /\ Returned
    /\ \E r \in 1..Len(raw_json.data) : At(raw_json.data[r], start) = PyNone
    /\ \E r \in 1..Len(raw_json.data) : At(raw_json.data[r], start) = PyStr(Word(""))
    /\ Len(result.value) = 1
    /\ Len(result.value[1]) >= 2

(* The response is well formed: every row is as long as the description.   *)
WellFormed(raw) == \A r \in 1..Len(raw.data) : Len(raw.data[r]) = Len(raw.description)

(* The positions p0 < p1 < p2 < p3 ... the Column Indexer finds.           *)
P(raw, k) == At(get_data_indexes(raw), k)
IdColumns(raw) == Len(get_data_indexes(raw))

NormalizeCase ==
    /\ Done
    /\ data_format = "json_normalized"
    /\ WellFormed(raw_json)
    /\ IdColumns(raw_json) >= 4
    /\ Len(raw_json.data) >= 1

ScenarioOf(json) == Section(json, "oed_scenario")

(* C9 as stated: the scenario mapping has exactly the names of the first   *)
(* p1 columns as keys and the first p1 values of the first row as values,  *)
(* positionally.                                                           *)
C9_ScenarioPositional ==
    NormalizeCase =>
        /\ result.raised = "none"
        /\ LET scenario == ScenarioOf(result.value)
               p1 == P(raw_json, 1)
           IN  /\ Len(scenario) = p1
               /\ \A i \in 0..(p1 - 1) :
                    At(scenario, i) = <<ColumnName(At(raw_json.description, i)),
                                        At(At(raw_json.data, 0), i)>>

(* C9 amended: the keys of the scenario mapping are exactly the names of   *)
(* the first p1 columns, and the value under each key is the first row's   *)
(* value at the last of the first p1 columns that bears that name (so the  *)
(* values are the first p1 values positionally when those names are        *)
(* pairwise distinct), whatever the other rows contain.                    *)
C9_ScenarioLastOfName ==
    NormalizeCase =>
        /\ result.raised = "none"
        /\ LET scenario == ScenarioOf(result.value)
               p1 == P(raw_json, 1)
               name(i) == ColumnName(At(raw_json.description, i))
           IN  /\ Elements(DictKeys(scenario)) = {name(i) : i \in 0..(p1 - 1)}
               /\ \A i \in 0..(p1 - 1) :
                    (\A j \in (i + 1)..(p1 - 1) : name(j) # name(i))
                        => DictGet(scenario, name(i)) = At(At(raw_json.data, 0), i)
               /\ \A i, j \in 1..Len(scenario) :
                    scenario[i][1] = scenario[j][1] => i = j

C9_Witness ==
    /\ NormalizeCase
    /\ result.raised = "none"
    /\ Len(raw_json.data) >= 2
    /\ Len(ScenarioOf(result.value)) < P(raw_json, 1)

(* The results the example is documented to give.                          *)
S(w) == PyStr(Word(w))

ExampleNormalized(scenario_key, scalar_id) ==
    << <<"oed_scenario", AsDict(<< <<scenario_key, S("S1")>>, <<"name", S("run-a")>> >>)>>,
       <<"oed_data", AsList(<< << <<"id", S("D1")>>, <<"value", PyInt(10)>> >> >>)>>,
       <<"oed_scalars",
         AsList(<< << <<"id", S(scalar_id)>>, <<"region", S("east")>> >> >>)>>,
       <<"oed_timeseries", AsList(<<>>)>> >>

ExampleConcrete(scenario_key) ==
    << <<"oed_scenario", AsDict(<< <<scenario_key, S("S1")>>, <<"name", S("run-a")>> >>)>>,
       <<"oed_scalars",
         AsList(<< << <<"id", S("D1")>>, <<"value", PyInt(10)>>,
                      <<"region", S("east")>> >> >>)>>,
       <<"oed_timeseries", AsList(<<>>)>> >>

ExampleHolds(raw, scenario_key, scalar_id) ==
    /\ (Done /\ raw_json = raw /\ data_format = "json_normalized")
          => /\ result.raised = "none"
             /\ result.value = ExampleNormalized(scenario_key, scalar_id)
    /\ (Done /\ raw_json = raw /\ data_format = "json_concrete")
          => /\ result.raised = "none"
             /\ result.value = ExampleConcrete(scenario_key)

(* C8 as stated: for the example response (first descriptor                *)
(* scenario_id/id, scalar id SC1) normalize yields scenario                *)
(* {scenario_id: S1, name: run-a}, data [{id: D1, value: 10}], timeseries  *)
(* [] and scalars [{id: SC1, region: east}], and concretize yields scalars *)
(* [{id: D1, value: 10, region: east}] and timeseries [].                  *)
C8_ExampleAsStated == ExampleHolds(ExampleRaw, "scenario_id", "SC1")

(* C8 amended: for the example response with the first descriptor named id *)
(* and the scalar part of the row carrying the id D1 of its data part,     *)
(* normalize yields scenario {id: S1, name: run-a}, data                   *)
(* [{id: D1, value: 10}], timeseries [] and scalars                        *)
(* [{id: D1, region: east}], and concretize yields scalars                 *)
(* [{id: D1, value: 10, region: east}] and timeseries [].                  *)
C8_ExampleById == ExampleHolds(ExampleRawById, "id", "D1")

C8_Witness ==
    /\ Returned
    /\ raw_json = ExampleRawById
    /\ data_format = "json_concrete"
    /\ Len(Section(result.value, "oed_scalars")) = 1

(* C6: normalize, and every pipeline built on it, fails with a             *)
(* MalformedSchema error, not an out-of-range fault, whenever the          *)
(* description has fewer than 4 identifier columns.                        *)
C6_MalformedSchema ==
    (Done /\ data_format \in OedataFormat \ {"raw"} /\ IdColumns(raw_json) < 4)
        => result.raised \notin {"none", "IndexError"}

(* C7: format_data called with a value that is none of the five format     *)
(* tokens fails with an UnsupportedFormat error and returns no value.      *)
C7_UnsupportedFormat ==
    (Done /\ data_format \notin OedataFormat) => result.raised # "none"

(* Reading an archive back: each member's csv parsed into rows of mappings *)
(* from the header cells to the row's cells.                               *)
CsvParsed(content) ==
    [r \in 1..(Len(content) - 1) |-> DictZip(content[1], content[r + 1])]

ArchiveParsed(zipped) ==
    [k \in 1..Len(zipped) |-> <<zipped[k].name, CsvParsed(zipped[k].content)>>]

(* A section as rows of mappings with every key and value as csv text.     *)
AsText(entry) == [i \in 1..Len(entry) |-> <<Word(entry[i][1]), CsvCell(entry[i][2])>>]

SectionAsText(data) ==
    IF data.type = "dict" THEN <<AsText(data.v)>>
    ELSE [i \in 1..Len(data.v) |-> AsText(data.v[i])]

ModelAsText(json) == [k \in 1..Len(json) |-> <<json[k][1], SectionAsText(json[k][2])>>]

(* C4: for every NormalizedModel normalize produces from a well-formed     *)
(* response, also one with a section without rows, serializing it to an    *)
(* archive succeeds and parsing the members back reproduces the keys and   *)
(* values of every section, as strings.                                    *)
C4_ArchiveRoundTrip ==
    (/\ Done
     /\ data_format = "csv_normalized"
     /\ WellFormed(raw_json)
     /\ get_normalized_json(raw_json).raised = "none")
        => /\ result.raised = "none"
           /\ ArchiveParsed(result.value) = ModelAsText(get_normalized_json(raw_json).value)

(* The normalized tables of the response.                                  *)
Normalized == get_normalized_json(raw_json)

IdOf(entry) == DictGet(entry, "id")

HasEqualId(d, entries) == \E i \in 1..Len(entries) : PyEq(IdOf(entries[i]), IdOf(d))

(* Data entry d has an entry of equal id in scalars or in timeseries.      *)
HasCounterpart(json, d) ==
    \/ HasEqualId(Section(json, "oed_data")[d], Section(json, "oed_scalars"))
    \/ HasEqualId(Section(json, "oed_data")[d], Section(json, "oed_timeseries"))

ConcretizeCase == Done /\ Normalized.raised = "none"

(* C1: when every data entry has an entry of equal id in the scalars or    *)
(* the timeseries table, concretize places every data entry exactly once:  *)
(* the two output lists together have as many entries as data, each data   *)
(* entry in one of them, also when an id is in both tables.                *)
C1_PlacedExactlyOnce ==
    ConcretizeCase =>
        LET json == Normalized.value IN
        (\A d \in 1..Len(Section(json, "oed_data")) : HasCounterpart(json, d))
            => /\ result.raised = "none"
               /\ Len(Section(result.value, "oed_scalars"))
                    + Len(Section(result.value, "oed_timeseries"))
                        = Len(Section(json, "oed_data"))

(* C5: concretize fails, rather than dropping the entry or returning a     *)
(* result, whenever some data entry has an id equal to that of no scalars  *)
(* and of no timeseries entry.  The AttributeError of line 172 is taken    *)
(* for the failure the claim calls UnmatchedIdentifier.                    *)
C5_UnmatchedFails ==
    ConcretizeCase =>
        LET json == Normalized.value IN
        (\E d \in 1..Len(Section(json, "oed_data")) : ~HasCounterpart(json, d))
            => result.raised = "AttributeError"

(* Where the join puts each data entry: the list its lookup succeeds in    *)
(* and the entry found there.                                              *)
Matches(json) ==
    [d \in 1..Len(Section(json, "oed_data")) |->
        LET data_id == IdOf(Section(json, "oed_data")[d])
            in_scalars == JmesSearch(data_id, Section(json, "oed_scalars"))
            in_timeseries == JmesSearch(data_id, Section(json, "oed_timeseries"))
        IN  IF in_scalars.found
            THEN [list |-> "oed_scalars", entry |-> in_scalars.entry]
            ELSE [list |-> "oed_timeseries", entry |-> in_timeseries.entry]]

(* The place of data entry d among the entries put in the same list.       *)
PlaceOf(match, d) == Cardinality({e \in 1..d : match[e].list = match[d].list})

(* One merged entry follows the precedence rule for its data entry and the *)
(* entry matched to it.                                                    *)
FollowsPrecedence(merged, data, entry) ==
    /\ Elements(DictKeys(merged)) = Elements(DictKeys(data)) \cup Elements(DictKeys(entry))
    /\ Len(merged) = Cardinality(Elements(DictKeys(merged)))
    /\ DictGet(merged, "id") = IdOf(data)
    /\ \A k \in Elements(DictKeys(entry)) \ {"id"} : DictGet(merged, k) = DictGet(entry, k)
    /\ \A k \in Elements(DictKeys(data)) \ Elements(DictKeys(entry)) :
         DictGet(merged, k) = DictGet(data, k)

(* C10: every merged entry keeps the id of its data entry, never the       *)
(* matched entry's; for every other key of both the merged value is the    *)
(* matched entry's; keys of one side only are carried over unchanged.      *)
C10_MergePrecedence ==
    (ConcretizeCase /\ result.raised = "none") =>
        LET json == Normalized.value
            match == Matches(json)
        IN  \A d \in DOMAIN match :
                FollowsPrecedence(Section(result.value, match[d].list)[PlaceOf(match, d)],
                                  Section(json, "oed_data")[d], match[d].entry)

(* A merged entry whose matched entry has another id than the data entry   *)
(* and another value under a key they share, next to keys of one side, and *)
(* a data entry merged into the timeseries list.                           *)
C10_Witness ==
    /\ ConcretizeCase
    /\ result.raised = "none"
    /\ LET json == Normalized.value
           match == Matches(json)
           data == Section(json, "oed_data")
       IN  /\ \E d \in DOMAIN match :
                /\ match[d].list = "oed_scalars"
                /\ IdOf(match[d].entry) # IdOf(data[d])
                /\ HasKey(data[d], "a") /\ HasKey(match[d].entry, "a")
                /\ DictGet(match[d].entry, "a") # DictGet(data[d], "a")
                /\ HasKey(match[d].entry, "b") /\ HasKey(data[d], "c")
           /\ \E d \in DOMAIN match : match[d].list = "oed_timeseries"

====
